---------------------------- MODULE Spec2Model ----------------------------
(***************************************************************************)
(* Model of src/2022/13/main.rs: the nested Integer/List value (Item), its *)
(* three-way comparator (Ord for Item), the explicit-stack line parser     *)
(* (load) and the re-serializer (print_list / print_item / print_problem). *)
(*                                                                         *)
(* Bytes are modelled by their ASCII codes, usize by NumLimbs limbs of     *)
(* 16 bits (most significant limb first), so that the arithmetic of the    *)
(* integer accumulator keeps the width it has in the program.              *)
(***************************************************************************)
EXTENDS Integers, Sequences, FiniteSets, TLC

VARIABLES
    pc,             \* position of main/load: "lines", "bytes", "loaded", "printed", "panic"
    line_number,    \* load: line_number
    line_string,    \* load: the bytes of the current line consumed so far by the scan
    rest,           \* the bytes of the current line not yet consumed, when the line is a corpus line
    nbytes,         \* number of freely chosen bytes consumed so far (bounds the input)
    integer_bytes,  \* load: integer_bytes
    integer_value,  \* load: integer_value
    stack,          \* load: stack
    problem,        \* load: problem
    parsed,         \* history: for every line read so far, what the scan left as its value
    p,              \* main: p; <<>> until load returns, then <<the Problem returned>>
    out,            \* the bytes written to standard output
    a, b, c,        \* operands of the comparator
    res,            \* the comparator's results on the operands
    calls,          \* the activations of Item::cmp in progress, outermost first
    ret             \* the value the last activation returned, "none" once taken

loadVars == <<pc, line_number, line_string, rest, nbytes, integer_bytes,
              integer_value, stack, problem, parsed, p, out>>
cmpVars  == <<a, b, c, res, calls, ret>>
vars     == <<pc, line_number, line_string, rest, nbytes, integer_bytes,
              integer_value, stack, problem, parsed, p, out, a, b, c, res,
              calls, ret>>

----------------------------------------------------------------------------
(* Bounds of the model *)

MaxBytes == 4       \* freely chosen input bytes over the whole input
MaxLines == 5       \* lines of the input
MaxNodes == 4       \* comparator operands (pairs) have at most this many nodes
MaxTransNodes == 3  \* comparator operands (triples, and the pairs of the
                    \* call-by-call comparison) have at most this many nodes

\* the integers the comparator's operands hold
OperandIntegers == {0, 1}

----------------------------------------------------------------------------
(* usize: 64 bits, as NumLimbs limbs of 16 bits, most significant first *)

NumLimbs == 4
LimbBase == 65536

Usize == [1..NumLimbs -> 0..(LimbBase - 1)]

\* the usize holding the small number n (n < LimbBase)
UsizeOf(n) == [i \in 1..NumLimbs |-> IF i = NumLimbs THEN n ELSE 0]

UsizeZero == UsizeOf(0)

\* v * 10 + d computed limb by limb from the least significant limb;
\* carry is what does not fit in the 64 bits
RECURSIVE MulTenAddFrom(_, _, _)
MulTenAddFrom(v, i, carry) ==
    IF i = 0 THEN [val |-> v, carry |-> carry]
    ELSE LET t == v[i] * 10 + carry
         IN  MulTenAddFrom([v EXCEPT ![i] = t % LimbBase], i - 1, t \div LimbBase)

\* integer_value *= 10; integer_value += digit
MulTenAdd(v, d) == MulTenAddFrom(v, NumLimbs, d)

\* v divided by 10, limb by limb from the most significant limb
RECURSIVE DivTenFrom(_, _, _)
DivTenFrom(v, i, rem) ==
    IF i > NumLimbs THEN [q |-> v, r |-> rem]
    ELSE LET cur == rem * LimbBase + v[i]
         IN  DivTenFrom([v EXCEPT ![i] = cur \div 10], i + 1, cur % 10)

RECURSIVE DecimalDigits(_)
DecimalDigits(v) ==
    IF v = UsizeZero THEN <<>>
    ELSE LET d == DivTenFrom(v, 1, 0)
         IN  Append(DecimalDigits(d.q), 48 + d.r)

\* print!("{}", x) for a usize x: its decimal digits, "0" for zero
DisplayUsize(v) == IF v = UsizeZero THEN <<48>> ELSE DecimalDigits(v)

Ordering == {"Less", "Equal", "Greater"}

\* Ord for usize (x.cmp(y)): the first differing limb decides
RECURSIVE UsizeCmpFrom(_, _, _)
UsizeCmpFrom(x, y, i) ==
    IF i > NumLimbs THEN "Equal"
    ELSE IF x[i] < y[i] THEN "Less"
    ELSE IF x[i] > y[i] THEN "Greater"
    ELSE UsizeCmpFrom(x, y, i + 1)

UsizeCmp(x, y) == UsizeCmpFrom(x, y, 1)

\* Ord for the lengths of two vectors (x.len().cmp(&y.len()))
LenCmp(m, n) == IF m < n THEN "Less" ELSE IF m > n THEN "Greater" ELSE "Equal"

----------------------------------------------------------------------------
(* enum Item *)

Integer(x) == [tag |-> "Integer", val |-> x]
List(xs)   == [tag |-> "List", items |-> xs]

IsInteger(item) == item.tag = "Integer"
IsList(item)    == item.tag = "List"

Min(m, n) == IF m < n THEN m ELSE n

----------------------------------------------------------------------------
(* impl Ord for Item *)

\* the singleton list an Integer is promoted to
PromoteUnwrapped(x) == Integer(x)
PromoteDropped(x) == List(<<>>)
Promote(x) == List(<<Integer(x)>>)

RECURSIVE cmp(_, _)

\* what the List-vs-List loop returns when it runs out of indices
LoopEndAlwaysEqual(x, y) == "Equal"
LoopEndShorterOrSame(x, y) == IF Len(x) <= Len(y) THEN "Less" ELSE "Greater"
LoopEnd(x, y) == LenCmp(Len(x), Len(y))

\* the loop comparing no items at all
cmp_lists_LengthOnly(x, y, i) == LoopEnd(x, y)

\* the loop "for i in 0 .. min(x.len(), y.len())" from index i on (1-based)
RECURSIVE cmp_lists(_, _, _)
cmp_lists(x, y, i) ==
    IF i > Min(Len(x), Len(y)) THEN LoopEnd(x, y)
    ELSE LET ci == cmp(x[i], y[i])
         IN  IF ci # "Equal" THEN ci ELSE cmp_lists(x, y, i + 1)

cmp(self, other) ==
    IF IsInteger(self)
    THEN IF IsInteger(other)
         THEN UsizeCmp(self.val, other.val)
         ELSE cmp(Promote(self.val), other)
    ELSE IF IsInteger(other)
         THEN cmp(self, Promote(other.val))
         ELSE cmp_lists(self.items, other.items, 1)

\* impl PartialEq for Item
eq(self, other) == cmp(self, other) = "Equal"

----------------------------------------------------------------------------
(* print_list / print_item *)

COMMA == 44
LBRACKET == 91
RBRACKET == 93
NEWLINE == 10
ZERO == 48

RECURSIVE print_item(_)

\* the loop of print_list over the items from index i on
RECURSIVE print_items(_, _)
print_items(x, i) ==
    IF i > Len(x) THEN <<>>
    ELSE (IF i > 1 THEN <<COMMA>> ELSE <<>>) \o print_item(x[i]) \o print_items(x, i + 1)

\* print_list of a List; print_list of an Integer panics (PrintListPanics)
print_list(item) == print_items(item.items, 1)

PrintListPanics(item) == IsInteger(item)

print_item(item) ==
    IF IsInteger(item) THEN DisplayUsize(item.val)
    ELSE <<LBRACKET>> \o print_list(item) \o <<RBRACKET>>

----------------------------------------------------------------------------
(* The input: what io::BufReader::new(file).lines() yields *)

SPACE == 32
LETTER == 97
ONE == 49

\* the bytes a freely chosen line is made of: the structural bytes, two
\* digits, one byte below '0' and one byte above '9'
Alphabet == {LBRACKET, RBRACKET, COMMA, ZERO, ONE, SPACE, LETTER}

\* "[18446744073709551615]": the largest usize
LineMaxUsize == <<91, 49,56,52,52,54,55,52,52,48,55,51,55,48,57,53,53,49,54,49,53, 93>>
\* "[18446744073709551616]": the largest usize plus one
LineOverUsize == <<91, 49,56,52,52,54,55,52,52,48,55,51,55,48,57,53,53,49,54,49,54, 93>>
\* "[[1],[2,3,4]]"
LineScenario == <<91, 91,49,93, 44, 91,50,44,51,44,52,93, 93>>

\* "[1,]]"
LineExtraClose == <<91, 49, 44, 93, 93>>

\* "[1,,2]" and "[1,2]"
LineEmptySlot == <<91, 49, 44, 44, 50, 93>>
LineNoEmptySlot == <<91, 49, 44, 50, 93>>

\* whole lines the input may hold besides the freely chosen ones
Corpus == {LineMaxUsize, LineOverUsize, LineScenario, LineExtraClose,
           LineEmptySlot, LineNoEmptySlot}

\* a line that lines() yields as Err (not valid UTF-8)
ErrLine == [tag |-> "Err"]

----------------------------------------------------------------------------
(* fn load *)

\* the parser's registers in the middle of one iteration of the byte loop
Regs(pan, stk, ib, iv) == [panic |-> pan, stack |-> stk, bytes |-> ib, value |-> iv]

\* x.push(item) on the List that is the top frame
PushToTop(stk, item) ==
    [stk EXCEPT ![Len(stk)] = List(Append(stk[Len(stk)].items, item))]

\* Flush without "integer_value = 0"
FlushKeepsValue(stk, ib, iv) ==
    IF ib # 0
    THEN IF stk = <<>> \/ IsInteger(stk[Len(stk)])
         THEN Regs(TRUE, stk, ib, iv)
         ELSE Regs(FALSE, PushToTop(stk, Integer(iv)), 0, iv)
    ELSE Regs(FALSE, stk, 0, iv)

\* Flush that appends the accumulator even when it holds no digit
FlushAlways(stk, ib, iv) ==
    IF stk = <<>> \/ IsInteger(stk[Len(stk)])
    THEN Regs(TRUE, stk, ib, iv)
    ELSE Regs(FALSE, PushToTop(stk, Integer(iv)), 0, UsizeZero)

\* lines 81-94: b']' | b',' | b'\n'
Flush(stk, ib, iv) ==
    IF ib # 0
    THEN IF stk = <<>> \/ IsInteger(stk[Len(stk)])
         THEN Regs(TRUE, stk, ib, iv)
         ELSE Regs(FALSE, PushToTop(stk, Integer(iv)), 0, UsizeZero)
    ELSE Regs(FALSE, stk, 0, UsizeZero)

\* OpenCheck without "assert!(integer_bytes == 0)"
OpenCheckNone(stk, ib, iv) == Regs(FALSE, stk, ib, iv)

\* lines 95-97: b'['
OpenCheck(stk, ib, iv) == Regs(ib # 0, stk, ib, iv)

\* Digit without "assert!(digit < 10)"
DigitNoAssert(ch, stk, ib, iv, checked) ==
    LET digit == (ch + 256 - ZERO) % 256
        m10   == MulTenAdd(iv, 0)
        m     == MulTenAdd(iv, digit)
    IN  IF ch < ZERO /\ checked
        THEN Regs(TRUE, stk, ib, iv)
        ELSE IF m10.carry # 0 /\ checked
        THEN Regs(TRUE, stk, ib + 1, iv)
        ELSE IF m.carry # 0 /\ checked
        THEN Regs(TRUE, stk, ib + 1, m10.val)
        ELSE Regs(FALSE, stk, ib + 1, m.val)

\* lines 98-104: any other byte; checked says whether the build panics on
\* arithmetic overflow (debug) or wraps (release): in "ch - b'0'", in
\* "integer_value *= 10" and in "integer_value += digit"
Digit(ch, stk, ib, iv, checked) ==
    LET digit == (ch + 256 - ZERO) % 256
        m10   == MulTenAdd(iv, 0)
        m     == MulTenAdd(iv, digit)
    IN  IF (ch < ZERO /\ checked) \/ ~(digit < 10)
        THEN Regs(TRUE, stk, ib, iv)
        ELSE IF m10.carry # 0 /\ checked
        THEN Regs(TRUE, stk, ib + 1, iv)
        ELSE IF m.carry # 0 /\ checked
        THEN Regs(TRUE, stk, ib + 1, m10.val)
        ELSE Regs(FALSE, stk, ib + 1, m.val)

\* lines 80-105: the first match on ch
FirstMatch(ch, stk, ib, iv, checked) ==
    IF ch \in {RBRACKET, COMMA, NEWLINE} THEN Flush(stk, ib, iv)
    ELSE IF ch = LBRACKET THEN OpenCheck(stk, ib, iv)
    ELSE Digit(ch, stk, ib, iv, checked)

\* Close that moves the items of the closed list into the parent frame
CloseSplices(r) ==
    LET n     == Len(r.stack)
        child == r.stack[n]
        stk   == SubSeq(r.stack, 1, n - 1)
    IN  IF n = 0 THEN [r EXCEPT !.panic = TRUE]
        ELSE IF stk = <<>> \/ IsInteger(stk[Len(stk)])
        THEN [r EXCEPT !.panic = TRUE, !.stack = stk]
        ELSE [r EXCEPT !.stack =
                 [stk EXCEPT ![Len(stk)] = List(stk[Len(stk)].items \o child.items)]]

\* Close that ignores a b']' when there is no frame to receive the child
CloseLenient(r) ==
    LET n     == Len(r.stack)
        child == r.stack[n]
        stk   == SubSeq(r.stack, 1, n - 1)
    IN  IF n = 0 \/ stk = <<>> \/ IsInteger(stk[Len(stk)])
        THEN r
        ELSE [r EXCEPT !.stack = PushToTop(stk, child)]

\* lines 110-120: b']'
Close(r) ==
    LET n     == Len(r.stack)
        child == r.stack[n]
        stk   == SubSeq(r.stack, 1, n - 1)
    IN  IF n = 0 THEN [r EXCEPT !.panic = TRUE]
        ELSE IF stk = <<>> \/ IsInteger(stk[Len(stk)])
        THEN [r EXCEPT !.panic = TRUE, !.stack = stk]
        ELSE [r EXCEPT !.stack = PushToTop(stk, child)]

\* Open pushing an Integer frame
OpenPushesInteger(r) == [r EXCEPT !.stack = Append(r.stack, Integer(UsizeZero))]

\* lines 107-109: b'['
Open(r) == [r EXCEPT !.stack = Append(r.stack, List(<<>>))]

\* lines 106-122: the second match on ch
SecondMatch(ch, r) ==
    IF ch = LBRACKET THEN Open(r)
    ELSE IF ch = RBRACKET THEN Close(r)
    ELSE r

\* ScanByte with the two matches in the other order: pop, then flush
ScanBytePopFirst(ch, stk, ib, iv, checked) ==
    LET r == SecondMatch(ch, Regs(FALSE, stk, ib, iv))
    IN  IF r.panic THEN r ELSE FirstMatch(ch, r.stack, r.bytes, r.value, checked)

\* lines 79-123: one iteration of "for ch in line_string.bytes()"
ScanByte(ch, stk, ib, iv, checked) ==
    LET r == FirstMatch(ch, stk, ib, iv, checked)
    IN  IF r.panic THEN r ELSE SecondMatch(ch, r)

Pair(l, r) == [left |-> l, right |-> r]

\* StoreLine that pairs the lines two by two, with no separator line
StoreLineNoSeparator(prob, stk, n) ==
    LET k == Len(stk)
    IN  IF n % 2 = 1
        THEN [panic |-> FALSE, stack |-> SubSeq(stk, 1, k - 1),
              problem |-> Append(prob, Pair(stk[k], List(<<>>)))]
        ELSE IF prob = <<>>
             THEN [panic |-> TRUE, stack |-> SubSeq(stk, 1, k - 1), problem |-> prob]
             ELSE [panic |-> FALSE, stack |-> SubSeq(stk, 1, k - 1),
                   problem |-> [prob EXCEPT ![Len(prob)].right = stk[k]]]

\* StoreLine whose last arm leaves the line's value on the stack
StoreLineKeepsThird(prob, stk, n) ==
    LET k == Len(stk)
    IN  IF n % 3 = 1
        THEN [panic |-> FALSE, stack |-> SubSeq(stk, 1, k - 1),
              problem |-> Append(prob, Pair(stk[k], List(<<>>)))]
        ELSE IF n % 3 = 2
        THEN IF prob = <<>>
             THEN [panic |-> TRUE, stack |-> SubSeq(stk, 1, k - 1), problem |-> prob]
             ELSE [panic |-> FALSE, stack |-> SubSeq(stk, 1, k - 1),
                   problem |-> [prob EXCEPT ![Len(prob)].right = stk[k]]]
        ELSE [panic |-> FALSE, stack |-> stk, problem |-> prob]

\* StoreLine whose last arm stores the line as the right of the last Pair
StoreLineThirdOverwrites(prob, stk, n) ==
    LET k == Len(stk)
    IN  IF n % 3 = 1
        THEN [panic |-> FALSE, stack |-> SubSeq(stk, 1, k - 1),
              problem |-> Append(prob, Pair(stk[k], List(<<>>)))]
        ELSE IF prob = <<>>
             THEN [panic |-> TRUE, stack |-> SubSeq(stk, 1, k - 1), problem |-> prob]
             ELSE [panic |-> FALSE, stack |-> SubSeq(stk, 1, k - 1),
                   problem |-> [prob EXCEPT ![Len(prob)].right = stk[k]]]

\* lines 125-138: match line_number % 3; in the second arm stack.pop() is
\* evaluated before problem.last_mut().unwrap()
StoreLine(prob, stk, n) ==
    LET k == Len(stk)
    IN  IF n % 3 = 1
        THEN [panic |-> FALSE, stack |-> SubSeq(stk, 1, k - 1),
              problem |-> Append(prob, Pair(stk[k], List(<<>>)))]
        ELSE IF n % 3 = 2
        THEN IF prob = <<>>
             THEN [panic |-> TRUE, stack |-> SubSeq(stk, 1, k - 1), problem |-> prob]
             ELSE [panic |-> FALSE, stack |-> SubSeq(stk, 1, k - 1),
                   problem |-> [prob EXCEPT ![Len(prob)].right = stk[k]]]
        ELSE [panic |-> FALSE, stack |-> SubSeq(stk, 1, k - 1), problem |-> prob]

\* lines 72-78: the iterator yields Ok(line_string); the line is either
\* chosen byte by byte as the scan goes, or a line of the corpus
NextLine ==
    /\ pc = "lines"
    /\ line_number < MaxLines
    /\ line_number' = line_number + 1
    /\ integer_bytes' = 0
    /\ integer_value' = UsizeZero
    /\ line_string' = <<>>
    /\ \/ rest' = <<>> /\ nbytes' = nbytes
       \/ nbytes = 0 /\ rest' \in Corpus /\ nbytes' = MaxBytes
    /\ IF stack = <<>>
       THEN pc' = "bytes" /\ stack' = <<List(<<>>)>>
       ELSE pc' = "panic" /\ stack' = stack
    /\ UNCHANGED <<problem, parsed, p, out>>
    /\ UNCHANGED cmpVars

\* lines 72-74: the iterator yields Err; the line is counted and skipped
ReadErr ==
    /\ pc = "lines"
    /\ line_number < MaxLines
    /\ line_number' = line_number + 1
    /\ parsed' = Append(parsed, ErrLine)
    /\ UNCHANGED <<pc, line_string, rest, nbytes, integer_bytes, integer_value,
                   stack, problem, p, out>>
    /\ UNCHANGED cmpVars

\* lines 79-123: the scan consumes the next byte of the line
NextByte ==
    /\ pc = "bytes"
    /\ \E ch \in Alphabet \cup {rest[i] : i \in DOMAIN rest}, checked \in BOOLEAN :
          /\ IF rest # <<>>
             THEN ch = Head(rest) /\ rest' = Tail(rest) /\ nbytes' = nbytes
             ELSE ch \in Alphabet /\ nbytes < MaxBytes /\ rest' = rest
                  /\ nbytes' = nbytes + 1
          /\ LET r == ScanByte(ch, stack, integer_bytes, integer_value, checked)
             IN  /\ line_string' = Append(line_string, ch)
                 /\ stack' = r.stack
                 /\ integer_bytes' = r.bytes
                 /\ integer_value' = r.value
                 /\ pc' = IF r.panic THEN "panic" ELSE "bytes"
    /\ UNCHANGED <<line_number, problem, parsed, p, out>>
    /\ UNCHANGED cmpVars

\* EndLine that drops a line whose brackets do not balance and goes on
EndLineSkipsBadLine ==
    /\ pc = "bytes"
    /\ rest = <<>>
    /\ IF Len(stack) # 1
       THEN pc' = "lines" /\ stack' = <<>> /\ UNCHANGED <<problem, parsed>>
       ELSE LET s == StoreLine(problem, stack, line_number)
            IN  /\ stack' = s.stack
                /\ problem' = s.problem
                /\ parsed' = IF s.panic THEN parsed ELSE Append(parsed, stack[1])
                /\ pc' = IF s.panic \/ s.stack # <<>> THEN "panic" ELSE "lines"
    /\ UNCHANGED <<line_number, line_string, rest, nbytes, integer_bytes,
                   integer_value, p, out>>
    /\ UNCHANGED cmpVars

\* lines 124-139: the line has no more bytes
EndLine ==
    /\ pc = "bytes"
    /\ rest = <<>>
    /\ IF Len(stack) # 1
       THEN pc' = "panic" /\ UNCHANGED <<stack, problem, parsed>>
       ELSE LET s == StoreLine(problem, stack, line_number)
            IN  /\ stack' = s.stack
                /\ problem' = s.problem
                /\ parsed' = IF s.panic THEN parsed ELSE Append(parsed, stack[1])
                /\ pc' = IF s.panic \/ s.stack # <<>> THEN "panic" ELSE "lines"
    /\ UNCHANGED <<line_number, line_string, rest, nbytes, integer_bytes,
                   integer_value, p, out>>
    /\ UNCHANGED cmpVars

\* line 142 and line 188: the iterator is exhausted, load returns problem
Return ==
    /\ pc = "lines"
    /\ pc' = "loaded"
    /\ p' = <<problem>>
    /\ UNCHANGED <<line_number, line_string, rest, nbytes, integer_bytes,
                   integer_value, stack, problem, parsed, out>>
    /\ UNCHANGED cmpVars

----------------------------------------------------------------------------
(* fn print_problem *)

\* the output of print_problem from pair i on, and whether it panics
RECURSIVE print_pairs(_, _)
print_pairs(prob, i) ==
    IF i > Len(prob) THEN [text |-> <<>>, panic |-> FALSE]
    ELSE IF PrintListPanics(prob[i].left) THEN [text |-> <<>>, panic |-> TRUE]
    ELSE IF PrintListPanics(prob[i].right)
    THEN [text |-> print_list(prob[i].left) \o <<NEWLINE>>, panic |-> TRUE]
    ELSE LET t == print_pairs(prob, i + 1)
         IN  [text |-> print_list(prob[i].left) \o <<NEWLINE>>
                       \o print_list(prob[i].right) \o <<NEWLINE, NEWLINE>>
                       \o t.text,
              panic |-> t.panic]

\* line 189: print_problem(&p)
PrintProblem ==
    /\ pc = "loaded"
    /\ LET t == print_pairs(p[1], 1)
       IN  /\ out' = out \o t.text
           /\ pc' = IF t.panic THEN "panic" ELSE "printed"
    /\ UNCHANGED <<line_number, line_string, rest, nbytes, integer_bytes,
                   integer_value, stack, problem, parsed, p>>
    /\ UNCHANGED cmpVars

----------------------------------------------------------------------------
(* The program: main *)

NoItem == List(<<>>)
NoRes == [ab |-> "Equal", ba |-> "Equal", bc |-> "Equal", ac |-> "Equal",
          aa |-> "Equal", eq |-> TRUE, wab |-> "Equal", done |-> FALSE]

LoadInit ==
    /\ pc = "lines"
    /\ line_number = 0
    /\ line_string = <<>>
    /\ rest = <<>>
    /\ nbytes = 0
    /\ integer_bytes = 0
    /\ integer_value = UsizeZero
    /\ stack = <<>>
    /\ problem = <<>>
    /\ parsed = <<>>
    /\ p = <<>>
    /\ out = <<>>

Init ==
    /\ LoadInit
    /\ a = NoItem /\ b = NoItem /\ c = NoItem
    /\ res = NoRes
    /\ calls = <<>> /\ ret = "none"

Next ==
    \/ NextLine
    \/ ReadErr
    \/ NextByte
    \/ EndLine
    \/ Return
    \/ PrintProblem

Spec == Init /\ [][Next]_vars

TypeOK ==
    /\ pc \in {"lines", "bytes", "loaded", "printed", "panic"}
    /\ line_number \in 0..MaxLines
    /\ nbytes \in 0..MaxBytes
    /\ integer_bytes \in Nat
    /\ integer_value \in Usize

----------------------------------------------------------------------------
(* The comparator applied to operands drawn from bounded sets *)

\* the Items with exactly n nodes (an Integer or a List counts one node),
\* and the sequences of Items with m nodes in all
RECURSIVE ItemsOfSize(_), SeqsOfSize(_)
ItemsOfSize(n) ==
    IF n = 1
    THEN {Integer(UsizeOf(k)) : k \in OperandIntegers} \cup {List(<<>>)}
    ELSE {List(s) : s \in SeqsOfSize(n - 1)}

SeqsOfSize(m) ==
    IF m = 0 THEN {<<>>}
    ELSE UNION {{<<x>> \o s : x \in ItemsOfSize(j), s \in SeqsOfSize(m - j)} : j \in 1..m}

ItemsUpTo(n) == UNION {ItemsOfSize(k) : k \in 1..n}

CmpInit ==
    /\ LoadInit
    /\ a \in ItemsUpTo(MaxNodes)
    /\ b \in ItemsUpTo(MaxNodes)
    /\ c = a
    /\ res = NoRes
    /\ calls = <<>> /\ ret = "none"

TransInit ==
    /\ LoadInit
    /\ a \in ItemsUpTo(MaxTransNodes)
    /\ b \in ItemsUpTo(MaxTransNodes)
    /\ c \in ItemsUpTo(MaxTransNodes)
    /\ res = NoRes
    /\ calls = <<>> /\ ret = "none"

\* the calls a.cmp(&b), b.cmp(&a), b.cmp(&c), a.cmp(&c), a.cmp(&a), a == b,
\* and List([a]).cmp(&List([b])), the operands wrapped as load's root frame
\* wraps a line's list
Compare ==
    /\ ~res.done
    /\ res' = [ab |-> cmp(a, b), ba |-> cmp(b, a), bc |-> cmp(b, c),
               ac |-> cmp(a, c), aa |-> cmp(a, a), eq |-> eq(a, b),
               wab |-> cmp(List(<<a>>), List(<<b>>)), done |-> TRUE]
    /\ UNCHANGED <<a, b, c, calls, ret>>
    /\ UNCHANGED loadVars

CmpNext == Compare

CmpSpec == CmpInit /\ [][CmpNext]_vars

TransSpec == TransInit /\ [][CmpNext]_vars

----------------------------------------------------------------------------
(* Item::cmp call by call: one activation record per call in progress *)

\* the call stack is as deep as the operands allow and one more
MaxDepth == 2 * MaxTransNodes + 2

\* an activation of cmp(self, other): kind is "call" on entry, "promoted"
\* while it waits for the call it made on a promoted operand, "loop" while
\* it is in the List-vs-List loop at index i (1-based)
Activation(self, other) == [self |-> self, other |-> other, i |-> 0, kind |-> "call"]

Top == calls[Len(calls)]
Popped == SubSeq(calls, 1, Len(calls) - 1)

CallInit ==
    /\ LoadInit
    /\ a \in ItemsUpTo(MaxTransNodes)
    /\ b \in ItemsUpTo(MaxTransNodes)
    /\ c = a
    /\ res = NoRes
    /\ calls = <<>> /\ ret = "none"

\* a.cmp(&b) is called
Enter ==
    /\ ~res.done
    /\ calls = <<>> /\ ret = "none"
    /\ calls' = <<Activation(a, b)>>
    /\ UNCHANGED <<a, b, c, res, ret>>
    /\ UNCHANGED loadVars

\* lines 28-44: match self / match other
Dispatch ==
    /\ calls # <<>> /\ ret = "none"
    /\ Top.kind = "call"
    /\ LET self == Top.self
           other == Top.other
       IN  IF IsInteger(self) /\ IsInteger(other)
           THEN /\ calls' = Popped
                /\ ret' = UsizeCmp(self.val, other.val)
           ELSE IF IsInteger(self)
           THEN /\ Len(calls) < MaxDepth
                /\ calls' = Append([calls EXCEPT ![Len(calls)].kind = "promoted"],
                                   Activation(Promote(self.val), other))
                /\ ret' = ret
           ELSE IF IsInteger(other)
           THEN /\ Len(calls) < MaxDepth
                /\ calls' = Append([calls EXCEPT ![Len(calls)].kind = "promoted"],
                                   Activation(self, Promote(other.val)))
                /\ ret' = ret
           ELSE /\ calls' = [calls EXCEPT ![Len(calls)].kind = "loop",
                                          ![Len(calls)].i = 1]
                /\ ret' = ret
    /\ UNCHANGED <<a, b, c, res>>
    /\ UNCHANGED loadVars

\* lines 35 and 41: the result of the call on the promoted operand is returned
PromotedReturn ==
    /\ calls # <<>> /\ ret # "none"
    /\ Top.kind = "promoted"
    /\ calls' = Popped
    /\ UNCHANGED <<a, b, c, res, ret>>
    /\ UNCHANGED loadVars

\* lines 44-52: the loop head; x[i].cmp(&y[i]) is called, or the loop is
\* over and x.len().cmp(&y.len()) is returned
LoopStep ==
    /\ calls # <<>> /\ ret = "none"
    /\ Top.kind = "loop"
    /\ LET x == Top.self.items
           y == Top.other.items
       IN  IF Top.i > Min(Len(x), Len(y))
           THEN /\ calls' = Popped
                /\ ret' = LoopEnd(x, y)
           ELSE /\ Len(calls) < MaxDepth
                /\ calls' = Append(calls, Activation(x[Top.i], y[Top.i]))
                /\ ret' = ret
    /\ UNCHANGED <<a, b, c, res>>
    /\ UNCHANGED loadVars

\* lines 46-50: ci is back; a result other than Equal is returned, Equal
\* moves the loop on
LoopResume ==
    /\ calls # <<>> /\ ret # "none"
    /\ Top.kind = "loop"
    /\ IF ret # "Equal"
       THEN calls' = Popped /\ ret' = ret
       ELSE calls' = [calls EXCEPT ![Len(calls)].i = Top.i + 1] /\ ret' = "none"
    /\ UNCHANGED <<a, b, c, res>>
    /\ UNCHANGED loadVars

\* a.cmp(&b) has returned
Finish ==
    /\ ~res.done
    /\ calls = <<>> /\ ret # "none"
    /\ res' = [res EXCEPT !.ab = ret, !.done = TRUE]
    /\ ret' = "none"
    /\ UNCHANGED <<a, b, c, calls>>
    /\ UNCHANGED loadVars

CallNext ==
    \/ Enter
    \/ Dispatch
    \/ PromotedReturn
    \/ LoopStep
    \/ LoopResume
    \/ Finish

\* a call that can take a step takes it
CallSpec == CallInit /\ [][CallNext]_vars /\ WF_vars(CallNext)

----------------------------------------------------------------------------
(* Claims about the comparator *)

Inverse(o) == IF o = "Less" THEN "Greater" ELSE IF o = "Greater" THEN "Less" ELSE "Equal"

\* the indices at which the elements of two lists do not compare Equal
Differing(x, y) == {i \in 1..Min(Len(x), Len(y)) : cmp(x[i], y[i]) # "Equal"}

FirstOf(S) == CHOOSE i \in S : \A j \in S : i <= j

\* x is a strict element-wise prefix of y
StrictPrefix(x, y) == Len(x) < Len(y) /\ x = SubSeq(y, 1, Len(x))

\* C2: for two Lists the comparator returns the result of comparing the
\* elements at the first index where they do not compare Equal; when there
\* is no such index it returns the numeric comparison of the lengths, so a
\* strict element-wise prefix is Less (the empty list against a non-empty
\* one included) and equal lengths give Equal.
C2_ListVsList ==
    (res.done /\ IsList(a) /\ IsList(b)) =>
        LET x == a.items
            y == b.items
            D == Differing(x, y)
        IN  /\ D # {} => res.ab = cmp(x[FirstOf(D)], y[FirstOf(D)])
            /\ D = {} /\ Len(x) < Len(y) => res.ab = "Less"
            /\ D = {} /\ Len(x) > Len(y) => res.ab = "Greater"
            /\ D = {} /\ Len(x) = Len(y) => res.ab = "Equal"
            /\ StrictPrefix(x, y) => res.ab = "Less"
            /\ x = <<>> /\ y = <<>> => res.ab = "Equal"

\* two Lists whose first elements compare Equal through a promotion and
\* whose second elements decide have been compared
C2_Witness ==
    /\ res.done /\ IsList(a) /\ IsList(b)
    /\ Len(a.items) = 2 /\ Len(b.items) = 2
    /\ a.items[1] # b.items[1]
    /\ Differing(a.items, b.items) = {2}
    /\ res.ab = "Greater"

\* C3: an Integer against a List compares as the singleton list holding
\* that Integer does, in both argument orders; in particular Integer(n) and
\* List([Integer(n)]) compare Equal in both orders.
C3_Promotion ==
    (res.done /\ IsInteger(a) /\ IsList(b)) =>
        /\ res.ab = cmp(List(<<a>>), b)
        /\ res.ba = cmp(b, List(<<a>>))
        /\ b = List(<<a>>) => res.ab = "Equal" /\ res.ba = "Equal"

\* Integer(1) has been compared with List([Integer(1)])
C3_Witness ==
    /\ res.done
    /\ a = Integer(UsizeOf(1))
    /\ b = List(<<a>>)
    /\ res.ab = "Equal" /\ res.ba = "Equal"

\* C4: cmp(a,b) is the inverse of cmp(b,a), cmp(a,a) is Equal, and a == b
\* holds exactly when cmp(a,b) is Equal.
C4_Antisymmetry ==
    res.done =>
        /\ res.ab = Inverse(res.ba)
        /\ res.aa = "Equal"
        /\ res.eq <=> (res.ab = "Equal")

\* an Integer and a nested List that are different Items have compared Equal
C4_Witness ==
    /\ res.done
    /\ IsInteger(a) /\ IsList(b) /\ b # List(<<a>>)
    /\ res.eq /\ res.ab = "Equal" /\ res.ba = "Equal"

\* C5: the comparator is transitive: if a is not Greater than b and b is
\* not Greater than c then a is not Greater than c, and a compares Equal to
\* c only if a compares Equal to b and b compares Equal to c.
C5_Transitivity ==
    (res.done /\ res.ab # "Greater" /\ res.bc # "Greater") =>
        /\ res.ac # "Greater"
        /\ res.ac = "Equal" => res.ab = "Equal" /\ res.bc = "Equal"

\* a chain Integer < List < Integer through two promotions has been compared
C5_Witness ==
    /\ res.done
    /\ IsInteger(a) /\ IsList(b) /\ IsInteger(c)
    /\ res.ab = "Less" /\ res.bc = "Less" /\ res.ac = "Less"

----------------------------------------------------------------------------
(* The grammar of a valid input line, stated on the text alone *)

At(s, i) == IF i \in 1..Len(s) THEN s[i] ELSE 0

IsDigit(ch) == ch \in ZERO..(ZERO + 9)

\* the index after the digits that start at index i
RECURSIVE SkipDigits(_, _)
SkipDigits(s, i) == IF IsDigit(At(s, i)) THEN SkipDigits(s, i + 1) ELSE i

\* the index after the item or list that starts at index i, 0 when there
\* is none; a number is "0" or starts with a non-zero digit
RECURSIVE AfterItem(_, _), AfterItems(_, _)
AfterItem(s, i) ==
    IF At(s, i) = LBRACKET
    THEN IF At(s, i + 1) = RBRACKET THEN i + 2 ELSE AfterItems(s, i + 1)
    ELSE IF At(s, i) = ZERO THEN i + 1
    ELSE IF IsDigit(At(s, i)) THEN SkipDigits(s, i)
    ELSE 0

AfterItems(s, i) ==
    LET j == AfterItem(s, i)
    IN  IF j = 0 THEN 0
        ELSE IF At(s, j) = COMMA THEN AfterItems(s, j + 1)
        ELSE IF At(s, j) = RBRACKET THEN j + 1
        ELSE 0

\* s is one outer [...] of comma-separated numbers and nested lists
ValidLine(s) == At(s, 1) = LBRACKET /\ AfterItem(s, 1) = Len(s) + 1

\* "18446744073709551615", the digits of the largest usize
UsizeMaxDigits == SubSeq(LineMaxUsize, 2, Len(LineMaxUsize) - 1)

\* the digit string d (no leading zero) is at most the digit string m
RECURSIVE DigitsLeqFrom(_, _, _)
DigitsLeqFrom(d, m, i) ==
    IF i > Len(d) THEN TRUE
    ELSE IF d[i] < m[i] THEN TRUE
    ELSE IF d[i] > m[i] THEN FALSE
    ELSE DigitsLeqFrom(d, m, i + 1)

DigitsFit(d) ==
    \/ Len(d) < Len(UsizeMaxDigits)
    \/ Len(d) = Len(UsizeMaxDigits) /\ DigitsLeqFrom(d, UsizeMaxDigits, 1)

\* every number written in s is at most the largest usize
NumbersFit(s) ==
    \A i \in 1..Len(s) :
        (IsDigit(s[i]) /\ ~IsDigit(At(s, i - 1))) =>
            DigitsFit(SubSeq(s, i, SkipDigits(s, i) - 1))

----------------------------------------------------------------------------
(* Claims about load and print_list *)

\* the scan of line line_number has ended and load has stored its value
JustStored ==
    /\ pc = "lines"
    /\ line_number > 0
    /\ line_number % 3 # 0
    /\ Len(parsed) = line_number
    /\ parsed[line_number] # ErrLine

\* the value load stored for the line
StoredValue ==
    IF line_number % 3 = 1 THEN problem[Len(problem)].left
    ELSE problem[Len(problem)].right

\* C1 as stated: for every valid line the text print_list emits for the
\* value load stored for the line is the line.
C1_RoundTripAnyInteger ==
    (JustStored /\ ValidLine(line_string)) =>
        print_list(StoredValue) = line_string

\* C1: for every valid line whose numbers are all at most the largest usize,
\* the text print_list emits for the value load stored for the line is the
\* line, byte for byte.
C1_RoundTrip ==
    (JustStored /\ ValidLine(line_string) /\ NumbersFit(line_string)) =>
        print_list(StoredValue) = line_string

\* the line "[[1],[2,3,4]]" has been stored and prints as itself
C1_Witness ==
    /\ JustStored
    /\ line_string = LineScenario
    /\ ValidLine(line_string) /\ NumbersFit(line_string)
    /\ print_list(StoredValue) = line_string

Count(s, ch) == Cardinality({i \in DOMAIN s : s[i] = ch})

\* the bytes of the grammar: the brackets, the comma and the digits
IsListByte(ch) == ch \in {LBRACKET, RBRACKET, COMMA} \/ IsDigit(ch)

OnlyListBytes(s) == \A i \in DOMAIN s : IsListByte(s[i])

\* some prefix of s holds more b']' than b'['
ExcessClose(s) ==
    \E i \in 1..Len(s) :
        Count(SubSeq(s, 1, i), RBRACKET) > Count(SubSeq(s, 1, i), LBRACKET)

\* the scan of line line_number has ended and load has accepted the line
LineAccepted ==
    /\ line_number > 0
    /\ Len(parsed) = line_number
    /\ parsed[line_number] # ErrLine

\* C6: a line over the brackets, the comma and the digits in which some
\* prefix holds more b']' than b'[' makes load abort with no value stored
\* for the line, and so does a line that ends with a b'[' still unclosed:
\* an accepted line has as many b'[' as b']'.
C6_MismatchedBrackets ==
    /\ (OnlyListBytes(line_string) /\ ExcessClose(line_string)) =>
           pc = "panic" /\ Len(parsed) < line_number
    /\ (LineAccepted /\ OnlyListBytes(line_string)) =>
           Count(line_string, LBRACKET) = Count(line_string, RBRACKET)

\* load has aborted on the last byte of the line "[1,]]"
C6_Witness ==
    /\ pc = "panic"
    /\ line_string = LineExtraClose
    /\ Len(parsed) < line_number
    /\ problem = <<>>

\* C7: when the scan consumes a byte that is not a bracket, a comma or a
\* digit, load aborts: the byte changes neither the accumulator nor the
\* stack nor the problem, and no step follows the abort.
C7_InvalidByte ==
    [][ /\ (/\ pc = "bytes"
            /\ Len(line_string') = Len(line_string) + 1
            /\ ~IsListByte(line_string'[Len(line_string')]))
           => /\ pc' = "panic"
              /\ integer_bytes' = integer_bytes
              /\ integer_value' = integer_value
              /\ stack' = stack
              /\ problem' = problem
        /\ pc = "panic" => pc' = "panic" ]_vars

\* load has aborted on a byte above '9' that follows a digit
C7_Witness ==
    /\ pc = "panic"
    /\ line_string = <<LBRACKET, ONE, LETTER>>
    /\ integer_bytes = 1
    /\ integer_value = UsizeOf(1)

\* C8: a b'[' consumed while the accumulator holds a digit makes load
\* abort before any frame is pushed.
C8_DigitBeforeOpen ==
    [][ (/\ pc = "bytes"
         /\ integer_bytes # 0
         /\ line_string' = Append(line_string, LBRACKET))
        => pc' = "panic" /\ stack' = stack ]_vars

\* load has aborted on the second b'[' of "[1[" with two frames on the stack
C8_Witness ==
    /\ pc = "panic"
    /\ line_string = <<LBRACKET, ONE, LBRACKET>>
    /\ integer_bytes = 1
    /\ Len(stack) = 2

\* the part of the current line consumed so far is already fatal: an
\* invalid byte, a b']' with no b'[' to match, or a digit right before b'['
FatalSoFar(s) ==
    \/ ~OnlyListBytes(s)
    \/ ExcessClose(s)
    \/ \E i \in 1..(Len(s) - 1) : IsDigit(s[i]) /\ s[i + 1] = LBRACKET

\* C9: when a line is fatal load has aborted, no Problem has been returned
\* and nothing has been printed, however many pairs were parsed before; a
\* Problem is returned only when every line read was processed to its end,
\* and output exists only once load has returned.
C9_NoPartialResult ==
    /\ FatalSoFar(line_string) => pc = "panic" /\ p = <<>> /\ out = <<>>
    /\ p # <<>> => Len(parsed) = line_number /\ p[1] = problem
    /\ out # <<>> => p # <<>> /\ pc \in {"printed", "panic"}
    /\ (pc = "panic" /\ p = <<>>) => out = <<>>

\* load has aborted on the fourth line after a whole pair was parsed
C9_Witness ==
    /\ pc = "panic"
    /\ line_number = 4
    /\ Len(problem) = 1 /\ Len(parsed) = 3
    /\ FatalSoFar(line_string)
    /\ p = <<>> /\ out = <<>>

NoErrLine == \A i \in DOMAIN parsed : parsed[i] # ErrLine

C11_ThirdLineNeverFatal ==
    (pc = "panic" /\ p = <<>>) => line_number % 3 # 0

\* C11: the third line of a cycle is scanned like the other lines and is
\* not required to be blank: while load is on such a line the problem does
\* not change, and when the scan accepts the line its value is dropped and
\* the stack is left empty.
C11_ThirdLineDiscarded ==
    [][ (pc = "bytes" /\ line_number % 3 = 0)
        => /\ problem' = problem
           /\ pc' = "lines" => stack' = <<>> /\ Len(parsed') = line_number ]_vars

\* a third line that is not blank has been accepted and is in no Pair
C11_Witness ==
    /\ pc = "lines"
    /\ line_number = 3 /\ Len(parsed) = 3
    /\ NoErrLine
    /\ parsed[3] # List(<<>>)
    /\ Len(problem) = 1
    /\ problem[1] = Pair(parsed[1], parsed[2])
    /\ parsed[3] # parsed[1] /\ parsed[3] # parsed[2]

\* C12 as stated: the value load stores for a valid line is the List that
\* the line writes, the one whose items are the items between the line's
\* outer brackets.
C12_StoredIsTheList ==
    (JustStored /\ ValidLine(line_string) /\ NumbersFit(line_string)) =>
        print_item(StoredValue) = line_string

\* C12: the value load stores for a valid line (numbers at most the largest
\* usize) is the root frame pushed before the scan: a List of exactly one
\* item, and that item is the List that the line writes.
C12_StoredIsRootFrame ==
    (JustStored /\ ValidLine(line_string) /\ NumbersFit(line_string)) =>
        /\ IsList(StoredValue)
        /\ Len(StoredValue.items) = 1
        /\ IsList(StoredValue.items[1])
        /\ print_item(StoredValue.items[1]) = line_string

\* the line "[[1],[2,3,4]]" has been stored as the root frame holding the
\* two-item list
C12_Witness ==
    /\ JustStored
    /\ line_string = LineScenario
    /\ Len(StoredValue.items) = 1
    /\ Len(StoredValue.items[1].items) = 2
    /\ print_item(StoredValue) # line_string

\* the numbers written in s: the maximal runs of digits
DigitRuns(s) == Cardinality({i \in DOMAIN s : IsDigit(s[i]) /\ ~IsDigit(At(s, i - 1))})

\* the Integers held by an Item, at any depth
RECURSIVE CountIntegers(_), CountIntegersFrom(_, _)
CountIntegers(item) ==
    IF IsInteger(item) THEN 1 ELSE CountIntegersFrom(item.items, 1)

CountIntegersFrom(x, i) ==
    IF i > Len(x) THEN 0 ELSE CountIntegers(x[i]) + CountIntegersFrom(x, i + 1)

\* C13: digits pending at the end of a line are flushed like on b',' or
\* b']': the value taken for an accepted line holds one Integer for every
\* number written in the line, a number that ends the line included, and the
\* last number of a line that ends with a digit is the last item of the
\* frame the result is taken from.
C13_EndOfLineFlush ==
    (pc = "lines" /\ LineAccepted) =>
        LET v == parsed[line_number]
        IN  /\ CountIntegers(v) = DigitRuns(line_string)
            /\ (line_string # <<>> /\ IsDigit(line_string[Len(line_string)])) =>
                   v.items # <<>> /\ IsInteger(v.items[Len(v.items)])

\* C14: when the scan consumes a b']' and goes on, the list that is closed
\* is the top frame with the pending Integer, if there is one, appended as
\* its last item; that list becomes the last item of the frame below, whose
\* other items and the frames under it are unchanged, and the accumulator is
\* empty afterwards.
C14_FlushBeforePop ==
    [][ (/\ pc = "bytes" /\ pc' = "bytes"
         /\ line_string' = Append(line_string, RBRACKET))
        => LET n      == Len(stack)
               closed == IF integer_bytes # 0
                         THEN List(Append(stack[n].items, Integer(integer_value)))
                         ELSE stack[n]
           IN  /\ n >= 2
               /\ Len(stack') = n - 1
               /\ SubSeq(stack', 1, n - 2) = SubSeq(stack, 1, n - 2)
               /\ stack'[n - 1] = List(Append(stack[n - 1].items, closed))
               /\ integer_bytes' = 0
               /\ integer_value' = UsizeZero ]_vars

\* after "[[1]" the closed list holds the Integer that was pending and is
\* itself the only item of the frame below; the root frame is still empty
C14_Witness ==
    /\ pc = "bytes"
    /\ line_string = <<LBRACKET, LBRACKET, ONE, RBRACKET>>
    /\ stack = <<List(<<>>), List(<<List(<<Integer(UsizeOf(1))>>)>>)>>
    /\ integer_bytes = 0

\* C15: the stack is empty whenever load is between two lines or has
\* returned; the scan of a line starts from an empty stack with the root
\* frame pushed (assert!(stack.is_empty()) at the start holds); a line is
\* accepted only from a stack of exactly one frame and leaves the stack
\* empty; and when load aborts at the end of a line it is because the stack
\* does not hold exactly one frame, or because a second line finds no Pair,
\* never because of assert!(stack.is_empty()) at the end.
C15_StackDiscipline ==
    [][ /\ (pc = "lines" /\ pc' # "loaded" /\ Len(parsed') = Len(parsed))
           => stack = <<>> /\ pc' = "bytes" /\ Len(stack') = 1
        /\ (pc = "bytes" /\ pc' = "lines")
           => Len(stack) = 1 /\ stack' = <<>>
        /\ (pc = "bytes" /\ pc' = "panic" /\ line_string' = line_string)
           => Len(stack) # 1 \/ (line_number % 3 = 2 /\ problem = <<>>)
        /\ pc' \in {"lines", "loaded", "printed"} => stack' = <<>> ]_vars

\* three lines, one at each position of the cycle, have been accepted, the
\* second and the third not blank, and the stack is empty
C15_Witness ==
    /\ pc = "lines"
    /\ line_number = 3 /\ Len(parsed) = 3
    /\ NoErrLine
    /\ parsed[2] # List(<<>>) /\ parsed[3] # List(<<>>)
    /\ stack = <<>>

\* C16: a Pair exists in the problem load returns only once both its left
\* (line 3k-2) and its right (line 3k-1) have been parsed: the k-th Pair's
\* right is the value of line 3k-1, and input that ends right after the
\* first line of a cycle yields no Pair for that cycle.
C16_ReturnedPairsComplete ==
    p # <<>> =>
        \A k \in 1..Len(p[1]) :
            /\ 3 * k - 1 <= Len(parsed)
            /\ parsed[3 * k - 1] # ErrLine
            /\ p[1][k].right = parsed[3 * k - 1]

\* C17: every frame of the stack is a List, and the left and the right of
\* every Pair, in the problem being built and in the problem returned, is a
\* List; so the panics of load on an Integer frame are unreachable, and once
\* load has returned nothing panics: print_list is never handed an Integer.
C17_FramesAndValuesAreLists ==
    /\ \A i \in 1..Len(stack) : IsList(stack[i])
    /\ \A k \in 1..Len(problem) :
           IsList(problem[k].left) /\ IsList(problem[k].right)
    /\ p # <<>> =>
           /\ \A k \in 1..Len(p[1]) :
                  ~PrintListPanics(p[1][k].left) /\ ~PrintListPanics(p[1][k].right)
           /\ pc # "panic"

\* print_problem has printed a Pair whose left holds an Integer item
C17_Witness ==
    /\ pc = "printed"
    /\ out # <<>>
    /\ Len(p[1]) = 1
    /\ p[1][1].left = List(<<List(<<Integer(UsizeOf(1))>>)>>)

\* C18: wrapping both operands in a one-item List does not change the
\* result: cmp(List([a]), List([b])) = cmp(a, b), so comparing the values
\* load stores (root frames) orders them as the lines' own lists.
C18_WrappingPreservesOrder == res.done => res.wab = res.ab

\* a List against an Integer, not Equal, compared bare and wrapped
C18_Witness ==
    /\ res.done
    /\ IsList(a) /\ a.items # <<>>
    /\ IsInteger(b)
    /\ res.ab = "Greater" /\ res.wab = "Greater"

\* the root frame holding one list of the Integers ns
RootOf(ns) == List(<<List([i \in 1..Len(ns) |-> Integer(UsizeOf(ns[i]))])>>)

\* C19: a b',' seen while the accumulator is empty changes nothing and a
\* b']' seen while it is empty closes the frame with the items it has,
\* neither being an error; the lines "[1,]", "[,]" and "[1,,2]" are
\* accepted and store the values that "[1]", "[]" and "[1,2]" store.
C19_EmptySlots ==
    [][ /\ (pc = "bytes" /\ integer_bytes = 0
            /\ line_string' = Append(line_string, COMMA))
           => pc' = "bytes" /\ stack' = stack /\ integer_bytes' = 0
        /\ (pc = "bytes" /\ integer_bytes = 0 /\ Len(stack) >= 2
            /\ line_string' = Append(line_string, RBRACKET))
           => /\ pc' = "bytes"
              /\ stack' = PushToTop(SubSeq(stack, 1, Len(stack) - 1),
                                    stack[Len(stack)])
        /\ (pc = "bytes"
            /\ line_string \in {<<LBRACKET, ONE, COMMA, RBRACKET>>,
                                <<LBRACKET, COMMA, RBRACKET>>, LineEmptySlot})
           => Len(stack) = 1
        /\ (pc = "bytes" /\ pc' = "lines")
           => LET v == parsed'[line_number]
              IN  /\ line_string \in {<<LBRACKET, ONE, COMMA, RBRACKET>>,
                                      <<LBRACKET, ONE, RBRACKET>>}
                     => v = RootOf(<<1>>)
                  /\ line_string \in {<<LBRACKET, COMMA, RBRACKET>>,
                                      <<LBRACKET, RBRACKET>>}
                     => v = RootOf(<<>>)
                  /\ line_string \in {LineEmptySlot, LineNoEmptySlot}
                     => v = RootOf(<<1, 2>>) ]_vars

\* "[1,,2]" has been accepted and stored as the list of 1 and 2
C19_Witness ==
    /\ pc = "lines"
    /\ LineAccepted
    /\ line_string = LineEmptySlot
    /\ parsed[line_number] = RootOf(<<1, 2>>)

\* the nesting depth of an Item: 0 for an Integer, 1 for a List of
\* Integers or of nothing, one more than its deepest item otherwise
RECURSIVE Nesting(_), NestingFrom(_, _)
Nesting(item) == IF IsInteger(item) THEN 0 ELSE 1 + NestingFrom(item.items, 1)

NestingFrom(items, i) ==
    IF i > Len(items) THEN 0
    ELSE LET h == Nesting(items[i])
             t == NestingFrom(items, i + 1)
         IN  IF h > t THEN h ELSE t

MaxNesting == IF Nesting(a) > Nesting(b) THEN Nesting(a) ELSE Nesting(b)

\* what holds of the call stack of a.cmp(&b) at every moment
C20_CallStack ==
    /\ Len(calls) <= 2 * MaxNesting + 1
    /\ Len(calls) < MaxDepth
    /\ \A j \in 1..Len(calls) :
          /\ calls[j].kind = "promoted" /\ j < Len(calls)
             => /\ IsList(calls[j + 1].self) /\ IsList(calls[j + 1].other)
                /\ calls[j + 1].kind \in {"call", "loop"}
          /\ calls[j].kind = "loop" /\ j < Len(calls)
             => /\ calls[j].i \in 1..Min(Len(calls[j].self.items),
                                         Len(calls[j].other.items))
                /\ calls[j + 1].self = calls[j].self.items[calls[j].i]
                /\ calls[j + 1].other = calls[j].other.items[calls[j].i]
          /\ \A k \in 1..Len(calls) :
                (j < k /\ calls[j].kind = "promoted" /\ calls[k].kind = "promoted")
                => <<calls[j].self, calls[j].other>> # <<calls[k].self, calls[k].other>>

\* C20: a.cmp(&b) terminates; all along, the call made after a promotion
\* compares two Lists, the call a loop makes is on the items at its index,
\* no two activations in progress promote the same operands, and the depth
\* of the call stack is at most twice the operands' nesting depth plus one.
C20_Terminates == []C20_CallStack /\ <>res.done

\* the call stack at its bound for operands nested two deep: an Integer
\* against a List of a List, promoted twice
C20_Witness ==
    /\ IsInteger(a)
    /\ MaxNesting = 2
    /\ Len(calls) = 5
    /\ calls[1].kind = "promoted" /\ calls[3].kind = "promoted"
    /\ IsInteger(calls[5].self) /\ IsInteger(calls[5].other)

=============================================================================
